---- MODULE Spec2Model ----
(***************************************************************************)
(* Model of web_outline_extractor.py: the outline extraction pass          *)
(* (extract_headings_from_soup) with the text helpers it calls, the text   *)
(* helpers called on their own, the resource inliner                       *)
(* (save_headings_full_html) and the command-line run (__main__).          *)
(*                                                                         *)
(* Text is a sequence of one-character strings, so that whitespace         *)
(* normalisation, splitting, formatting of the reference key and the       *)
(* search variants are computed character by character as the code does.   *)
(* A parsed document is a sequence of top-level nodes: text nodes, heading *)
(* elements and container elements holding text nodes and headings.        *)
(***************************************************************************)
EXTENDS Naturals, Sequences, FiniteSets, TLC

VARIABLES doc, heading_tags, i, level_counters, hierarchical_stack, headings, pc,
          call, inl, cli

vars == <<doc, heading_tags, i, level_counters, hierarchical_stack, headings, pc, call, inl, cli>>

\* doc .. pc are the state of the extraction pass.  call is one call of a
\* text helper, inl one run of save_headings_full_html, cli one run of the
\* command line; each is Idle in the specifications where it does not run.
Idle == [pc |-> "idle"]

(***************************************************************************)
(* Bounds of the model.                                                    *)
(***************************************************************************)
\* longest flat document (headings only) drawn in Init, and the deepest level in it
MaxHeadings == 3
MaxLevel == 3
\* longest raw heading text of the single-heading documents drawn in Init
MaxRawLen == 4
\* most top-level nodes, and most children of a container, of the nested documents
MaxNodes == 3
MaxKids == 1
\* longest text and largest word limit of the calls of truncate_to_words
MaxTextLen == 5
MaxWordLimit == 2
\* most pieces a title of the calls of generate_search_variants is made of
MaxPieces == 3
\* most img elements of the pages given to save_headings_full_html
MaxImages == 1

(***************************************************************************)
(* Program constants.                                                      *)
(***************************************************************************)
\* level_counters = [0, 0, 0, 0, 0, 0]; tags h1..h6
NumLevels == 6
\* truncate_to_words(full_content, 50)
PreviewWords == 50

(***************************************************************************)
(* Characters.                                                             *)
(***************************************************************************)
UpperCase == <<"A", "B", "C", "D", "E", "F", "G", "H", "I", "J", "K", "L", "M", "N", "O", "P", "Q", "R", "S", "T", "U", "V", "W", "X", "Y", "Z">>
LowerCase == <<"a", "b", "c", "d", "e", "f", "g", "h", "i", "j", "k", "l", "m", "n", "o", "p", "q", "r", "s", "t", "u", "v", "w", "x", "y", "z">>
Digits == <<"0", "1", "2", "3", "4", "5", "6", "7", "8", "9">>

Range(s) == {s[k] : k \in 1..Len(s)}

\* str.isspace / regex \s on the characters the model draws
isspace(c) == c \in {" ", "\t", "\n"}

\* regex \w
isword(c) == c \in Range(UpperCase) \cup Range(LowerCase) \cup Range(Digits) \cup {"_"}

\* str.lower on one character
lower_char(c) == IF c \in Range(UpperCase) THEN LowerCase[CHOOSE k \in 1..26 : UpperCase[k] = c] ELSE c

lower(s) == [k \in 1..Len(s) |-> lower_char(s[k])]

\* int(c) of a decimal digit
int_of_digit(c) == (CHOOSE k \in 1..10 : Digits[k] = c) - 1

\* str(n) of a natural number
RECURSIVE str_of_int(_)
str_of_int(n) == IF n < 10 THEN <<Digits[n + 1]>> ELSE str_of_int(n \div 10) \o <<Digits[(n % 10) + 1]>>

(***************************************************************************)
(* String helpers of the Python runtime used by the code.                  *)
(***************************************************************************)
RECURSIVE lstrip(_)
lstrip(s) == IF s # <<>> /\ isspace(Head(s)) THEN lstrip(Tail(s)) ELSE s

RECURSIVE rstrip(_)
rstrip(s) == IF s # <<>> /\ isspace(s[Len(s)]) THEN rstrip(SubSeq(s, 1, Len(s) - 1)) ELSE s

strip(s) == rstrip(lstrip(s))

\* re.sub(r'\s+', ' ', s)
RECURSIVE sub_whitespace_runs(_)
sub_whitespace_runs(s) ==
    IF s = <<>> THEN <<>>
    ELSE IF isspace(Head(s)) THEN <<" ">> \o sub_whitespace_runs(lstrip(s))
    ELSE <<Head(s)>> \o sub_whitespace_runs(Tail(s))

\* s.replace(old, new) for single characters
replace_char(s, old, new) == [k \in 1..Len(s) |-> IF s[k] = old THEN new ELSE s[k]]

\* length of the leading run of non-whitespace characters
RECURSIVE word_len(_)
word_len(s) == IF s = <<>> \/ isspace(Head(s)) THEN 0 ELSE 1 + word_len(Tail(s))

\* s.split(): the maximal runs of non-whitespace characters
RECURSIVE split(_)
split(s) ==
    LET t == lstrip(s) IN
    IF t = <<>> THEN <<>>
    ELSE <<SubSeq(t, 1, word_len(t))>> \o split(SubSeq(t, word_len(t) + 1, Len(t)))

\* sep.join(parts)
RECURSIVE join(_, _)
join(sep, parts) ==
    IF parts = <<>> THEN <<>>
    ELSE IF Len(parts) = 1 THEN parts[1]
    ELSE parts[1] \o sep \o join(sep, Tail(parts))

startswith(s, prefix) == Len(s) >= Len(prefix) /\ SubSeq(s, 1, Len(prefix)) = prefix

(***************************************************************************)
(* clean_heading_text                                                      *)
(***************************************************************************)
clean_heading_text_no_collapse(text) == text

clean_heading_text(text) ==
    IF text = <<>> THEN <<>>
    ELSE strip(replace_char(replace_char(sub_whitespace_runs(strip(text)), "\n", " "), "\t", " "))

(***************************************************************************)
(* truncate_to_words                                                       *)
(***************************************************************************)
\* "len(words) < word_limit" in place of "<="
truncate_to_words_strict(text, word_limit) ==
    IF text = <<>> THEN <<>>
    ELSE LET cleaned_text == sub_whitespace_runs(strip(text))
             words == split(cleaned_text)
         IN IF Len(words) < word_limit THEN cleaned_text
            ELSE join(<<" ">>, SubSeq(words, 1, word_limit)) \o <<".", ".", ".">>

\* "words[:word_limit + 1]" in place of "words[:word_limit]"
truncate_to_words_one_more(text, word_limit) ==
    IF text = <<>> THEN <<>>
    ELSE LET cleaned_text == sub_whitespace_runs(strip(text))
             words == split(cleaned_text)
         IN IF Len(words) <= word_limit THEN cleaned_text
            ELSE join(<<" ">>, SubSeq(words, 1, word_limit + 1)) \o <<".", ".", ".">>

truncate_to_words(text, word_limit) ==
    IF text = <<>> THEN <<>>
    ELSE LET cleaned_text == sub_whitespace_runs(strip(text))
             words == split(cleaned_text)
         IN IF Len(words) <= word_limit THEN cleaned_text
            ELSE join(<<" ">>, SubSeq(words, 1, word_limit)) \o <<".", ".", ".">>

(***************************************************************************)
(* replace_images_with_tags: re.sub of                                     *)
(*   ([a-zA-Z0-9_-]+\.(jpg|jpeg|png|gif|svg|webp|bmp))  with IGNORECASE    *)
(* by "[IMAGE: <stem>]", leftmost match first, matches not overlapping.    *)
(***************************************************************************)
image_extensions == << <<"j", "p", "g">>, <<"j", "p", "e", "g">>, <<"p", "n", "g">>, <<"g", "i", "f">>, <<"s", "v", "g">>, <<"w", "e", "b", "p">>, <<"b", "m", "p">> >>

is_stem_char(c) == c \in Range(UpperCase) \cup Range(LowerCase) \cup Range(Digits) \cup {"_", "-"}

\* length of the leading run of [a-zA-Z0-9_-]
RECURSIVE stem_len(_)
stem_len(s) == IF s = <<>> \/ ~is_stem_char(Head(s)) THEN 0 ELSE 1 + stem_len(Tail(s))

\* the first alternative of the extension group that matches at the start of s, or <<>>
matched_extension(s) ==
    LET hits == {k \in 1..Len(image_extensions) : startswith(lower(s), image_extensions[k])}
    IN IF hits = {} THEN <<>> ELSE image_extensions[CHOOSE k \in hits : \A m \in hits : k <= m]

RECURSIVE replace_images_with_tags(_)
replace_images_with_tags(text) ==
    IF text = <<>> THEN <<>>
    ELSE LET n == stem_len(text)
             rest == SubSeq(text, n + 1, Len(text))
             ext == IF n >= 1 /\ rest # <<>> /\ Head(rest) = "." THEN matched_extension(Tail(rest)) ELSE <<>>
         IN IF ext # <<>>
            THEN <<"[", "I", "M", "A", "G", "E", ":", " ">> \o SubSeq(text, 1, n) \o <<"]">>
                 \o replace_images_with_tags(SubSeq(rest, 2 + Len(ext), Len(rest)))
            ELSE <<Head(text)>> \o replace_images_with_tags(Tail(text))

(***************************************************************************)
(* generate_search_variants                                                *)
(***************************************************************************)
prefixes_to_remove == << <<"c", "h", "a", "p", "t", "e", "r", " ">>, <<"p", "a", "r", "t", " ">>, <<"s", "e", "c", "t", "i", "o", "n", " ">>, <<"q", "u", "i", "c", "k", " ", "r", "e", "f", "e", "r", "e", "n", "c", "e", ":", " ">>, <<"o", "p", "t", "i", "o", "n", "a", "l", " ", "r", "u", "l", "e", ":", " ">> >>

\* for prefix in prefixes_to_remove: if title_lower.startswith(prefix): append the rest
RECURSIVE without_prefixes(_, _)
without_prefixes(title_lower, prefixes) ==
    IF prefixes = <<>> THEN <<>>
    ELSE (IF startswith(title_lower, Head(prefixes))
          THEN <<SubSeq(title_lower, Len(Head(prefixes)) + 1, Len(title_lower))>>
          ELSE <<>>) \o without_prefixes(title_lower, Tail(prefixes))

\* the loop below without "variant not in seen"
RECURSIVE unique_variants_with_repeats(_, _)
unique_variants_with_repeats(variants, seen) ==
    IF variants = <<>> THEN <<>>
    ELSE IF strip(Head(variants)) # <<>>
         THEN <<Head(variants)>> \o unique_variants_with_repeats(Tail(variants), seen)
         ELSE unique_variants_with_repeats(Tail(variants), seen)

\* the loop below without "and variant.strip()"
RECURSIVE unique_variants_with_blanks(_, _)
unique_variants_with_blanks(variants, seen) ==
    IF variants = <<>> THEN <<>>
    ELSE IF Head(variants) \notin seen
         THEN <<Head(variants)>> \o unique_variants_with_blanks(Tail(variants), seen \cup {Head(variants)})
         ELSE unique_variants_with_blanks(Tail(variants), seen)

\* the loop "Remove duplicates while preserving order"
RECURSIVE unique_variants(_, _)
unique_variants(variants, seen) ==
    IF variants = <<>> THEN <<>>
    ELSE IF Head(variants) \notin seen /\ strip(Head(variants)) # <<>>
         THEN <<Head(variants)>> \o unique_variants(Tail(variants), seen \cup {Head(variants)})
         ELSE unique_variants(Tail(variants), seen)

generate_search_variants(title) ==
    IF title = <<>> THEN <<>>
    ELSE LET title_lower == lower(title)
             words == split(title)
             acronym == [k \in 1..Len(words) |-> lower_char(words[k][1])]
             keep(c) == isword(c) \/ isspace(c)
             no_special == SelectSeq(title_lower, keep)
             long(w) == Len(w) > 3
             long_words == SelectSeq(words, long)
             significant_words == [k \in 1..Len(long_words) |-> lower(long_words[k])]
             variants == <<title_lower>>
                         \o without_prefixes(title_lower, prefixes_to_remove)
                         \o (IF Len(words) > 1 /\ Len(acronym) > 1 THEN <<acronym>> ELSE <<>>)
                         \o (IF no_special # title_lower THEN <<no_special>> ELSE <<>>)
                         \o significant_words
         IN unique_variants(variants, {})

(***************************************************************************)
(* The parsed document.  A node is a text node, a heading element (its     *)
(* tag name, its id attribute, the text get_text() returns for it) or a    *)
(* container element with children.  A position is the path of child       *)
(* indices from the top level; <<>> stands for None.                       *)
(***************************************************************************)
TextNode(t) == [kind |-> "text", text |-> t]
HeadingNode(level, id, t) == [kind |-> "heading", name |-> <<"h", Digits[level + 1]>>, id |-> id, text |-> t]
DivNode(kids) == [kind |-> "div", kids |-> kids]
NoneNode == [kind |-> "None"]

node_at(d, pos) ==
    IF pos = <<>> THEN NoneNode
    ELSE IF Len(pos) = 1 THEN d[pos[1]]
    ELSE d[pos[1]].kids[pos[2]]

\* element.next_sibling
next_sibling(d, pos) ==
    IF Len(pos) = 1 THEN (IF pos[1] < Len(d) THEN <<pos[1] + 1>> ELSE <<>>)
    ELSE (IF pos[2] < Len(d[pos[1]].kids) THEN <<pos[1], pos[2] + 1>> ELSE <<>>)

\* the headings among the children of one node, in order
RECURSIVE kid_headings(_, _, _)
kid_headings(kids, a, b) ==
    IF b > Len(kids) THEN <<>>
    ELSE (IF kids[b].kind = "heading" THEN << <<a, b>> >> ELSE <<>>) \o kid_headings(kids, a, b + 1)

\* soup.find_all(['h1', ..., 'h6']): the heading elements in document order
RECURSIVE find_all_headings(_, _)
find_all_headings(d, a) ==
    IF a > Len(d) THEN <<>>
    ELSE (IF d[a].kind = "heading" THEN << <<a>> >>
          ELSE IF d[a].kind = "div" THEN kid_headings(d[a].kids, a, 1)
          ELSE <<>>) \o find_all_headings(d, a + 1)

\* element.get_text() of a heading element
get_text(node) == node.text

\* the stripped, non-empty strings below a node, concatenated
RECURSIVE stripped_strings(_)
stripped_strings(kids) ==
    IF kids = <<>> THEN <<>> ELSE strip(Head(kids).text) \o stripped_strings(Tail(kids))

\* element.get_text(strip=True)
get_text_stripped(node) ==
    IF node.kind = "div" THEN stripped_strings(node.kids) ELSE strip(node.text)

(***************************************************************************)
(* extract_section_content                                                 *)
(***************************************************************************)
\* truth value of a node in "while current": None and the empty string are false
is_truthy_node(node) == node.kind # "None" /\ ~(node.kind = "text" /\ node.text = <<>>)

\* the siblings the while loop visits: from the first sibling up to, and without,
\* the first one that is None or compares equal to stop_element
RECURSIVE scanned_siblings(_, _, _)
scanned_siblings(d, current, stop_element) ==
    IF ~is_truthy_node(node_at(d, current)) \/ node_at(d, current) = stop_element THEN <<>>
    ELSE <<current>> \o scanned_siblings(d, next_sibling(d, current), stop_element)

\* the text a visited sibling contributes to content_elements (<<>>: nothing)
contributed_text(node) ==
    IF node.kind = "text" THEN strip(node.text) ELSE get_text_stripped(node)

\* stop_element = next_headings[0] if next_headings else None
stop_element_of(d, next_headings) ==
    IF next_headings # <<>> THEN node_at(d, next_headings[1]) ELSE NoneNode

extract_section_content(d, heading_pos, next_headings) ==
    LET scanned == scanned_siblings(d, next_sibling(d, heading_pos), stop_element_of(d, next_headings))
        texts == [k \in 1..Len(scanned) |-> contributed_text(node_at(d, scanned[k]))]
        nonempty(t) == t # <<>>
        content_elements == SelectSeq(texts, nonempty)
        full_content == replace_images_with_tags(join(<<" ">>, content_elements))
    IN truncate_to_words(full_content, PreviewWords)

(***************************************************************************)
(* The steps of the loop body of extract_headings_from_soup                *)
(***************************************************************************)
\* "if title:"
title_is_kept_always(title) == TRUE

title_is_kept(title) == title # <<>>

\* level = int(heading.name[1])
level_of(name) == int_of_digit(name[2])

\* level_counters[level-1] += 1, then the loop resetting the deeper levels
increment_without_reset(counters, level) == [counters EXCEPT ![level] = @ + 1]

reset_own_level_too(counters, level) ==
    [l \in 1..NumLevels |-> IF l >= level THEN 0 ELSE counters[l]]

increment_and_reset(counters, level) ==
    [l \in 1..NumLevels |->
        IF l = level THEN counters[l] + 1
        ELSE IF l - 1 \in level..(NumLevels - 1) /\ l - 1 > level - 1 THEN 0
        ELSE counters[l]]

\* hierarchical_stack = hierarchical_stack[:level-1]; hierarchical_stack.append(title)
truncate_to_level_and_append(stack, level, title) ==
    SubSeq(stack, 1, IF level < Len(stack) THEN level ELSE Len(stack)) \o <<title>>

pad_to_level_and_append(stack, level, title) ==
    LET kept == SubSeq(stack, 1, IF level - 1 < Len(stack) THEN level - 1 ELSE Len(stack))
    IN kept \o [j \in 1..(level - 1 - Len(kept)) |-> <<>>] \o <<title>>

truncate_and_append(stack, level, title) ==
    SubSeq(stack, 1, IF level - 1 < Len(stack) THEN level - 1 ELSE Len(stack)) \o <<title>>

\* f"[{level}.{level_counters[level-1]}] {title}"
format_key_ordinal_first(level, ordinal, title) ==
    <<"[">> \o str_of_int(ordinal) \o <<".">> \o str_of_int(level) \o <<"]", " ">> \o title

format_reference_key(level, ordinal, title) ==
    <<"[">> \o str_of_int(level) \o <<".">> \o str_of_int(ordinal) \o <<"]", " ">> \o title

\* headings.append(heading_data)
prepend_heading(records, heading_data) == <<heading_data>> \o records

append_heading_sharing_path(records, heading_data) ==
    Append([k \in 1..Len(records) |-> [records[k] EXCEPT !.hierarchical_path = heading_data.hierarchical_path]],
           heading_data)

append_heading(records, heading_data) == Append(records, heading_data)

(***************************************************************************)
(* The documents drawn in Init.                                            *)
(***************************************************************************)
SeqUpTo(S, n) == UNION {[1..m -> S] : m \in 0..n}

\* raw heading texts of the flat documents: blank, "a", and one that cleans to "a b"
FlatTitles == {<<" ", "\n">>, <<"a">>, <<"\t", "a", " ", " ", "b", "\n">>}

FlatLevels == {l \in 1..NumLevels : l <= MaxLevel}

FlatDocs == SeqUpTo({HeadingNode(l, <<>>, t) : l \in FlatLevels, t \in FlatTitles}, MaxHeadings)

\* one heading whose raw text is any string over these characters
TextChars == {"a", " ", "\n", "\t"}

TextDocs == {<<HeadingNode(l, <<>>, t)>> : l \in 1..NumLevels, t \in SeqUpTo(TextChars, MaxRawLen)}

\* nested documents: text nodes and headings at the top level and inside containers
DomLeaves == {HeadingNode(1, <<"s", "1">>, <<"a">>), HeadingNode(2, <<>>, <<" ">>), TextNode(<<"x">>)}

DomDocs == SeqUpTo(DomLeaves \cup {DivNode(k) : k \in SeqUpTo(DomLeaves, MaxKids) \ {<<>>}}, MaxNodes)

\* <h1>Introduction</h1><h2>Background</h2><h2>Scope</h2>
ScenarioDoc == << HeadingNode(1, <<>>, <<"I", "n", "t", "r", "o", "d", "u", "c", "t", "i", "o", "n">>), HeadingNode(2, <<>>, <<"B", "a", "c", "k", "g", "r", "o", "u", "n", "d">>), HeadingNode(2, <<>>, <<"S", "c", "o", "p", "e">>) >>

Documents == FlatDocs \cup TextDocs \cup DomDocs \cup {ScenarioDoc}

(***************************************************************************)
(* extract_headings_from_soup as a state machine: i heading elements have  *)
(* been processed by the loop.                                             *)
(***************************************************************************)
Init ==
    /\ doc \in Documents
    /\ heading_tags = find_all_headings(doc, 1)
    /\ i = 0
    /\ level_counters = [l \in 1..NumLevels |-> 0]
    /\ hierarchical_stack = <<>>
    /\ headings = <<>>
    /\ pc = "loop"
    /\ call = Idle /\ inl = Idle /\ cli = Idle

\* one iteration of "for i, heading in enumerate(heading_tags)"
LoopBody ==
    /\ pc = "loop"
    /\ i < Len(heading_tags)
    /\ LET heading == node_at(doc, heading_tags[i + 1])
           title == clean_heading_text(get_text(heading))
           level == level_of(heading.name)
           counters == increment_and_reset(level_counters, level)
           stack == truncate_and_append(hierarchical_stack, level, title)
           next_headings == SubSeq(heading_tags, i + 2, Len(heading_tags))
           heading_data == [title |-> title,
                            level |-> level,
                            tag |-> heading.name,
                            id |-> heading.id,
                            content |-> extract_section_content(doc, heading_tags[i + 1], next_headings),
                            reference_key |-> format_reference_key(level, counters[level], title),
                            hierarchical_path |-> stack,
                            search_variants |-> generate_search_variants(title)]
       IN IF title_is_kept(title)
          THEN /\ level_counters' = counters
               /\ hierarchical_stack' = stack
               /\ headings' = append_heading(headings, heading_data)
          ELSE UNCHANGED <<level_counters, hierarchical_stack, headings>>
    /\ i' = i + 1
    /\ UNCHANGED <<doc, heading_tags, pc, call, inl, cli>>

\* the loop is over: return headings
Return ==
    /\ pc = "loop"
    /\ i = Len(heading_tags)
    /\ pc' = "done"
    /\ UNCHANGED <<doc, heading_tags, i, level_counters, hierarchical_stack, headings, call, inl, cli>>

Next == LoopBody \/ Return

Spec == Init /\ [][Next]_vars

(***************************************************************************)
(* Vocabulary of the properties: what the document says about the heading  *)
(* elements processed so far, and the parts of a reference key.            *)
(***************************************************************************)
\* the j-th heading element has a non-empty cleaned title
kept_at(j) == clean_heading_text(get_text(node_at(doc, heading_tags[j]))) # <<>>

\* the level the tag of the j-th heading element names
level_at(j) == int_of_digit(node_at(doc, heading_tags[j]).name[2])

\* the indices of the first n heading elements with a non-empty cleaned title, in order
RECURSIVE kept_upto(_)
kept_upto(n) == IF n = 0 THEN <<>> ELSE kept_upto(n - 1) \o (IF kept_at(n) THEN <<n>> ELSE <<>>)

\* the k-th record comes from the source_index[k]-th heading element
source_index == kept_upto(i)

\* the levels of the first n heading elements, 0 standing for an empty cleaned title
RECURSIVE titled_levels(_)
titled_levels(n) ==
    IF n = 0 THEN <<>> ELSE Append(titled_levels(n - 1), IF kept_at(n) THEN level_at(n) ELSE 0)

\* in such a sequence lv: the last of the first n entries that is a level shallower than l (0: none)
last_shallower(lv, l, n) ==
    LET S == {m \in 1..n : lv[m] # 0 /\ lv[m] < l}
    IN IF S = {} THEN 0 ELSE CHOOSE m \in S : \A q \in S : q <= m

\* the entries of level l among the first n that follow last_shallower(lv, l, n)
count_since_shallower(lv, l, n) ==
    LET from == last_shallower(lv, l, n) + 1
    IN Cardinality({m \in from..n : lv[m] = l})

index_of(s, c) == CHOOSE k \in 1..Len(s) : s[k] = c /\ \A m \in 1..(k - 1) : s[m] # c

RECURSIVE int_of_str(_)
int_of_str(s) == IF s = <<>> THEN 0 ELSE int_of_str(SubSeq(s, 1, Len(s) - 1)) * 10 + int_of_digit(s[Len(s)])

\* the <ordinal> and the <level> written in a key "[<level>.<ordinal>] <title>"
key_ordinal(key) == int_of_str(SubSeq(key, index_of(key, ".") + 1, index_of(key, "]") - 1))
key_level(key) == int_of_str(SubSeq(key, 2, index_of(key, ".") - 1))

Last(s) == s[Len(s)]

(***************************************************************************)
(* C1.  Within one run no two records have the same reference_key: the     *)
(* keys of the records produced so far are pairwise distinct.  (Fails:     *)
(* the counter of a level restarts after a shallower heading, so a title   *)
(* repeated under two parents gets the same key twice.)                    *)
(***************************************************************************)
C1_ReferenceKeysDistinct ==
    \A a, b \in 1..Len(headings) :
        a # b => headings[a].reference_key # headings[b].reference_key

(***************************************************************************)
(* C2.  Each non-empty-titled heading of level L increments the counter of *)
(* level L and zeroes the deeper counters: every counter equals the number *)
(* of non-empty-titled headings of its level seen since the last           *)
(* non-empty-titled shallower heading, and the ordinal in a record's key   *)
(* is 1 plus the number of such earlier headings of the record's level.    *)
(***************************************************************************)
C2_OrdinalCountsSinceShallower ==
    LET lv == titled_levels(i)
        source == source_index
    IN /\ \A l \in 1..NumLevels : level_counters[l] = count_since_shallower(lv, l, i)
       /\ \A k \in 1..Len(headings) :
            /\ k <= Len(source)
            /\ headings[k].level = lv[source[k]]
            /\ key_level(headings[k].reference_key) = lv[source[k]]
            /\ key_ordinal(headings[k].reference_key) = 1 + count_since_shallower(lv, lv[source[k]], source[k] - 1)

\* a level-2 record with ordinal 1 that follows a level-1 record and an earlier level-2 record
C2_Witness ==
    \E a, b, c \in 1..Len(headings) :
        /\ a < b /\ b < c
        /\ headings[a].level = 2 /\ headings[b].level = 1 /\ headings[c].level = 2
        /\ key_ordinal(headings[c].reference_key) = 1

(***************************************************************************)
(* C3, as claimed.  The ordinal is never reset by a shallower heading: of  *)
(* two records of the same level the later one has the strictly larger     *)
(* ordinal, whatever lies between them.                                    *)
(***************************************************************************)
C3_OrdinalNeverReset ==
    \A a, b \in 1..Len(headings) :
        (a < b /\ headings[a].level = headings[b].level)
            => key_ordinal(headings[a].reference_key) < key_ordinal(headings[b].reference_key)

(***************************************************************************)
(* C3, amended.  Of two records of the same level with no record of a      *)
(* shallower level between them, the later one has the strictly larger     *)
(* ordinal, whatever deeper headings lie between them.                     *)
(***************************************************************************)
C3_OrdinalGrowsUntilShallower ==
    \A a, b \in 1..Len(headings) :
        (/\ a < b
         /\ headings[a].level = headings[b].level
         /\ \A c \in (a + 1)..(b - 1) : headings[c].level >= headings[a].level)
            => key_ordinal(headings[a].reference_key) < key_ordinal(headings[b].reference_key)

\* two records of one level around a deeper record
C3_Witness ==
    \E a, b, c \in 1..Len(headings) :
        /\ a < c /\ c < b
        /\ headings[a].level = headings[b].level
        /\ headings[c].level > headings[a].level
        /\ key_ordinal(headings[b].reference_key) = 2

(***************************************************************************)
(* C4.  Every entry of a record's hierarchical_path but the last is the    *)
(* title of an earlier record of a strictly smaller level.  (Fails after a *)
(* skipped level: in h1, h3, h3 the first h3 stays in the path of the      *)
(* second.)                                                                *)
(***************************************************************************)
C4_PathEntriesAreAncestors ==
    \A k \in 1..Len(headings) :
        \A p \in 1..(Len(headings[k].hierarchical_path) - 1) :
            \E e \in 1..(k - 1) :
                /\ headings[e].title = headings[k].hierarchical_path[p]
                /\ headings[e].level < headings[k].level

(***************************************************************************)
(* C5.  When a record of level L is produced while the path stack holds at *)
(* least its L-1 ancestor entries, its hierarchical_path has length        *)
(* exactly L; and the last element of every record's hierarchical_path is  *)
(* the record's own title.                                                 *)
(***************************************************************************)
C5_PathLengthAndLast ==
    [][ LET r == headings'[Len(headings')]
        IN /\ (Len(headings') = Len(headings) + 1 /\ Len(hierarchical_stack) >= r.level - 1)
                => Len(r.hierarchical_path) = r.level
           /\ \A k \in 1..Len(headings') :
                Last(headings'[k].hierarchical_path) = headings'[k].title
      ]_vars

\* a level-3 record right after its level-1 and level-2 ancestors, with a path of length 3
C5_Witness ==
    \E k \in 3..Len(headings) :
        /\ headings[k - 2].level = 1
        /\ headings[k - 1].level = 2
        /\ headings[k].level = 3
        /\ Len(headings[k].hierarchical_path) = 3

(***************************************************************************)
(* C6.  The records are, in document order, exactly the heading elements   *)
(* with a non-empty cleaned title: nothing reordered, duplicated or left   *)
(* out; the run ends having processed every heading element, and a         *)
(* document without heading elements yields the empty list.                *)
(***************************************************************************)
C6_OneRecordPerTitledHeading ==
    /\ LET source == source_index
       IN /\ Len(headings) = Len(source)
          /\ \A k \in 1..Len(headings) :
                k <= Len(source) =>
                    LET e == node_at(doc, heading_tags[source[k]])
                    IN /\ headings[k].tag = e.name
                       /\ headings[k].id = e.id
                       /\ headings[k].title = clean_heading_text(e.text)
    /\ pc = "done" => i = Len(heading_tags)
    /\ (pc = "done" /\ heading_tags = <<>>) => headings = <<>>

\* a finished run that dropped an empty-titled heading between two records with different tags
C6_Witness ==
    /\ pc = "done"
    /\ Len(headings) = 2
    /\ Len(heading_tags) = 3
    /\ ~kept_at(2)
    /\ headings[1].tag # headings[2].tag

(***************************************************************************)
(* C7.  Processing a heading element whose cleaned title is empty leaves   *)
(* the level counters, the path stack and the record list unchanged.       *)
(***************************************************************************)
C7_EmptyTitleChangesNothing ==
    [][ (i' = i + 1 /\ ~kept_at(i + 1))
            => UNCHANGED <<level_counters, hierarchical_stack, headings>> ]_vars

\* an empty-titled heading has just been processed after a record was produced
C7_Witness ==
    /\ i >= 2
    /\ ~kept_at(i)
    /\ headings # <<>>
    /\ \E l \in 1..NumLevels : level_counters[l] > 0

(***************************************************************************)
(* C8.  The content preview of a record is built only from nodes strictly  *)
(* between the record's heading element and the next heading element in    *)
(* document order: no sibling that contributes text to it is, contains or  *)
(* follows the next heading element.  (Fails when the next heading is      *)
(* nested in a sibling container: the container's whole text is taken and  *)
(* the scan runs on to the last sibling.)                                  *)
(***************************************************************************)
\* position p comes before position q in document order (a container before its children)
before(p, q) ==
    \/ p[1] < q[1]
    \/ p[1] = q[1] /\ Len(p) = 1 /\ Len(q) = 2
    \/ p[1] = q[1] /\ Len(p) = 2 /\ Len(q) = 2 /\ p[2] < q[2]

\* the positions a sibling's text is taken from: itself and, for a container, its children
covered(d, pos) ==
    {pos} \cup (IF node_at(d, pos).kind = "div" THEN {<<pos[1], b>> : b \in 1..Len(node_at(d, pos).kids)} ELSE {})

\* the siblings that contribute text to the preview of the j-th heading element
contributing(j) ==
    LET scanned == scanned_siblings(doc, next_sibling(doc, heading_tags[j]), stop_element_of(doc, SubSeq(heading_tags, j + 1, Len(heading_tags))))
    IN {scanned[k] : k \in {m \in 1..Len(scanned) : contributed_text(node_at(doc, scanned[m])) # <<>>}}

C8_PreviewOnlyUpToNextHeading ==
    LET source == source_index
    IN \A k \in 1..Len(headings) :
        (k <= Len(source) /\ source[k] < Len(heading_tags)) =>
            \A s \in contributing(source[k]) :
                \A q \in covered(doc, s) : before(q, heading_tags[source[k] + 1])

(***************************************************************************)
(* C9.  The document h1 Introduction, h2 Background, h2 Scope yields       *)
(* exactly three records, with the keys [1.1] Introduction,                *)
(* [2.1] Background, [2.2] Scope and the paths [Introduction],             *)
(* [Introduction, Background], [Introduction, Scope], in that order.       *)
(***************************************************************************)
Introduction == <<"I", "n", "t", "r", "o", "d", "u", "c", "t", "i", "o", "n">>
Background == <<"B", "a", "c", "k", "g", "r", "o", "u", "n", "d">>
Scope == <<"S", "c", "o", "p", "e">>

C9_IntroductionScenario ==
    (doc = ScenarioDoc /\ pc = "done") =>
        /\ Len(headings) = 3
        /\ headings[1].reference_key = <<"[", "1", ".", "1", "]", " ">> \o Introduction
        /\ headings[2].reference_key = <<"[", "2", ".", "1", "]", " ">> \o Background
        /\ headings[3].reference_key = <<"[", "2", ".", "2", "]", " ">> \o Scope
        /\ headings[1].hierarchical_path = <<Introduction>>
        /\ headings[2].hierarchical_path = <<Introduction, Background>>
        /\ headings[3].hierarchical_path = <<Introduction, Scope>>
        /\ \A k \in 1..3 : headings[k].id = <<>>

\* the run on the scenario document has returned
C9_Witness == doc = ScenarioDoc /\ pc = "done" /\ Len(headings) = 3

(***************************************************************************)
(* C10.  Every record has a level in 1..6 that is the digit of its tag, a  *)
(* non-empty normalized title (no leading or trailing whitespace, no two   *)
(* adjacent whitespace characters, no newline or tab) and an ordinal of at *)
(* least 1 in its reference key.                                           *)
(***************************************************************************)
normalized(t) ==
    /\ t # <<>>
    /\ ~isspace(t[1])
    /\ ~isspace(t[Len(t)])
    /\ \A k \in 1..(Len(t) - 1) : ~(isspace(t[k]) /\ isspace(t[k + 1]))
    /\ \A k \in 1..Len(t) : t[k] \notin {"\n", "\t"}

C10_RecordsWellFormed ==
    \A k \in 1..Len(headings) :
        /\ headings[k].level \in 1..6
        /\ headings[k].tag = <<"h">> \o str_of_int(headings[k].level)
        /\ normalized(headings[k].title)
        /\ key_ordinal(headings[k].reference_key) >= 1

\* a record whose raw heading text held a newline, a tab and a run of whitespace
C10_Witness ==
    LET source == source_index
    IN \E k \in 1..Len(headings) :
        /\ k <= Len(source)
        /\ LET raw == node_at(doc, heading_tags[source[k]]).text
           IN /\ "\n" \in Range(raw)
              /\ "\t" \in Range(raw)
              /\ Len(raw) > Len(headings[k].title) + 2
        /\ \E p \in 1..Len(headings[k].title) : headings[k].title[p] = " "

(***************************************************************************)
(* The text helpers called on their own: truncate_to_words on any text     *)
(* with any word limit, its result truncated once more with the same       *)
(* limit, and generate_search_variants on any title.                       *)
(***************************************************************************)
ExtractionIdle ==
    /\ doc = <<>>
    /\ heading_tags = <<>>
    /\ i = 0
    /\ level_counters = [l \in 1..NumLevels |-> 0]
    /\ hierarchical_stack = <<>>
    /\ headings = <<>>
    /\ pc = "idle"

RECURSIVE concat(_)
concat(parts) == IF parts = <<>> THEN <<>> ELSE Head(parts) \o concat(Tail(parts))

\* titles are made of these pieces: a prefix the function removes, a word of
\* more than three characters, a short word, white space and punctuation
TitlePieces == {<<"P", "a", "r", "t", " ">>, <<"w", "o", "r", "d">>, <<"a">>, <<" ">>, <<"!">>}

Titles == {concat(ps) : ps \in SeqUpTo(TitlePieces, MaxPieces)}

Texts == SeqUpTo({"a", " ", "\n"}, MaxTextLen)

InitText ==
    /\ ExtractionIdle /\ inl = Idle /\ cli = Idle
    /\ \/ \E text \in Texts, word_limit \in 0..MaxWordLimit :
              call = [pc |-> "call", fn |-> "truncate_to_words", text |-> text, word_limit |-> word_limit]
       \/ \E title \in Titles :
              call = [pc |-> "call", fn |-> "generate_search_variants", title |-> title]

\* result = truncate_to_words(text, word_limit)
Truncate ==
    /\ call.pc = "call" /\ call.fn = "truncate_to_words"
    /\ call' = [pc |-> "returned", fn |-> call.fn, text |-> call.text, word_limit |-> call.word_limit,
                result |-> truncate_to_words(call.text, call.word_limit)]
    /\ UNCHANGED <<doc, heading_tags, i, level_counters, hierarchical_stack, headings, pc, inl, cli>>

\* again = truncate_to_words(result, word_limit)
TruncateAgain ==
    /\ call.pc = "returned" /\ call.fn = "truncate_to_words"
    /\ call' = [pc |-> "returned_again", fn |-> call.fn, text |-> call.text, word_limit |-> call.word_limit,
                result |-> call.result, again |-> truncate_to_words(call.result, call.word_limit)]
    /\ UNCHANGED <<doc, heading_tags, i, level_counters, hierarchical_stack, headings, pc, inl, cli>>

\* result = generate_search_variants(title)
Variants ==
    /\ call.pc = "call" /\ call.fn = "generate_search_variants"
    /\ call' = [pc |-> "returned", fn |-> call.fn, title |-> call.title,
                result |-> generate_search_variants(call.title)]
    /\ UNCHANGED <<doc, heading_tags, i, level_counters, hierarchical_stack, headings, pc, inl, cli>>

NextText == Truncate \/ TruncateAgain \/ Variants

SpecText == InitText /\ [][NextText]_vars

truncated == call.fn = "truncate_to_words" /\ call.pc \in {"returned", "returned_again"}

variants_returned == call.fn = "generate_search_variants" /\ call.pc = "returned"

ellipsis == <<".", ".", ".">>

has_no_word(s) == \A k \in 1..Len(s) : isspace(s[k])

\* C16: truncate_to_words(text, limit) is the words of the text joined by
\* single spaces (the text itself if it was already normalized) when the text
\* has at most limit words, and otherwise the first limit words joined by
\* single spaces with "..." right behind them, so limit + 1 words give limit
\* words and the marker; the empty text gives the empty string; truncating
\* the result again with the same limit gives the result.
C16_TruncateResult ==
    truncated =>
        LET words == split(call.text)
            limit == call.word_limit
        IN /\ Len(words) <= limit => call.result = join(<<" ">>, words)
           /\ Len(words) <= limit /\ normalized(call.text) => call.result = call.text
           /\ Len(words) > limit => call.result = join(<<" ">>, SubSeq(words, 1, limit)) \o ellipsis
           /\ Len(words) = limit + 1 => Len(call.result) = Len(join(<<" ">>, SubSeq(words, 1, limit))) + 3
           /\ call.text = <<>> => call.result = <<>>
           /\ call.pc = "returned_again" => call.again = call.result

\* three words truncated to two, and truncated again
C16_Witness ==
    /\ call.fn = "truncate_to_words" /\ call.pc = "returned_again"
    /\ call.text = <<"a", "\n", "a", " ", "a">> /\ call.word_limit = 2
    /\ call.again = <<"a", " ", "a", ".", ".", ".">>

\* C17 as stated: for every text and every limit N >= 0 the result has at
\* most N whitespace-delimited tokens.
C17_AtMostLimitTokens == truncated => Len(split(call.result)) <= call.word_limit

\* C17: for every text and every limit N >= 1 the result has at most N
\* whitespace-delimited tokens; for N = 0 the result is empty when the text
\* has no word and is otherwise the bare marker "...", which is one token.
C17_AtMostLimitTokensOrMarker ==
    truncated =>
        /\ call.word_limit >= 1 => Len(split(call.result)) <= call.word_limit
        /\ call.word_limit = 0 => call.result = (IF has_no_word(call.text) THEN <<>> ELSE ellipsis)

\* a text of one word truncated to no word at all
C17_Witness ==
    /\ truncated /\ call.word_limit = 0 /\ call.text = <<"a">>
    /\ call.result = ellipsis /\ Len(split(call.result)) = 1

\* C18: the result of generate_search_variants has no two equal entries and
\* no entry that is empty or only white space.
C18_VariantsDistinctAndNonBlank ==
    variants_returned =>
        /\ \A j, k \in 1..Len(call.result) : j # k => call.result[j] # call.result[k]
        /\ \A j \in 1..Len(call.result) : \E k \in 1..Len(call.result[j]) : ~isspace(call.result[j][k])

\* "Part word": the word comes both from the removed prefix and from the
\* significant words, and is returned once; "Part " leaves a blank candidate
C18_Witness ==
    /\ variants_returned
    /\ call.title = <<"P", "a", "r", "t", " ", "w", "o", "r", "d">>
    /\ call.result = << <<"p", "a", "r", "t", " ", "w", "o", "r", "d">>, <<"w", "o", "r", "d">>, <<"p", "w">>, <<"p", "a", "r", "t">> >>

\* C19 as stated: the result is empty only when the title is the empty
\* string; whitespace-only and punctuation-only titles give an entry.
C19_EmptyOnlyForEmptyTitle == variants_returned /\ call.title # <<>> => call.result # <<>>

\* C19: the result is empty exactly when the title is empty or only white
\* space; every title with a character that is not white space, the
\* punctuation-only ones included, gives at least one entry.
C19_EmptyOnlyForBlankTitle == variants_returned => (call.result = <<>> <=> has_no_word(call.title))

\* a whitespace-only title gives nothing, a punctuation-only title one entry
C19_Witness == variants_returned /\ call.title = <<" ">> /\ call.result = <<>>

C19_WitnessPunctuation == variants_returned /\ call.title = <<"!">> /\ call.result = << <<"!">> >>

(***************************************************************************)
(* The command-line run (__main__).  cli.args are the parsed arguments,    *)
(* cli.stdout the lines printed, cli.files the files written in order,     *)
(* cli.exit_status the status the process ended with, as the shell shows   *)
(* it.  The fetch of the page and the writes are answered by the           *)
(* environment.                                                            *)
(***************************************************************************)
default_url == "https://callmepartario.github.io/og-csrd/"

Urls == {default_url, "https://example.com"}

\* fetch_webpage: what requests.get, raise_for_status and BeautifulSoup do
FetchOutcomes == {"ok", "ConnectionError", "HTTPError", "parse failure"}

\* the exception fetch_webpage raises for an outcome, as its message
fetch_webpage_error(outcome, url) ==
    IF outcome = "parse failure" THEN <<"Error parsing HTML from ", url>> ELSE <<"Error fetching website ", url>>

InitCli ==
    /\ ExtractionIdle /\ call = Idle /\ inl = Idle
    /\ \E url \in Urls, markdown \in BOOLEAN, full_webpage \in BOOLEAN :
          cli = [pc |-> "validate", target_url |-> url, use_markdown |-> markdown, use_full_webpage |-> full_webpage,
                 stdout |-> <<>>, files |-> <<>>, fetched |-> "not yet", e |-> <<>>, exit_status |-> "none"]

\* if use_markdown and use_full_webpage: print, print_help, exit(1)
ValidateOptions ==
    /\ cli.pc = "validate"
    /\ cli' = IF cli.use_markdown /\ cli.use_full_webpage
              THEN [cli EXCEPT !.pc = "exited", !.exit_status = "1",
                               !.stdout = @ \o << <<"Error: -md and -full options are mutually exclusive">>, <<"usage">> >>]
              ELSE [cli EXCEPT !.pc = "try"]
    /\ UNCHANGED <<doc, heading_tags, i, level_counters, hierarchical_stack, headings, pc, call, inl>>

\* raw_html, soup = fetch_webpage(target_url): returns, or raises into the except clause
FetchWebpage ==
    /\ cli.pc = "try"
    /\ \E outcome \in FetchOutcomes :
          cli' = IF outcome = "ok"
                 THEN [cli EXCEPT !.pc = "extract", !.fetched = outcome, !.stdout = Append(@, <<"Extracting headings from ", cli.target_url>>)]
                 ELSE [cli EXCEPT !.pc = "except", !.fetched = outcome, !.e = fetch_webpage_error(outcome, cli.target_url),
                                  !.stdout = Append(@, <<"Extracting headings from ", cli.target_url>>)]
    /\ UNCHANGED <<doc, heading_tags, i, level_counters, hierarchical_stack, headings, pc, call, inl>>

\* headings = extract_headings_from_soup(soup); print_heading_outline(headings)
ExtractAndPrint ==
    /\ cli.pc = "extract"
    /\ cli' = [cli EXCEPT !.pc = "save_json", !.stdout = Append(@, <<"outline">>)]
    /\ UNCHANGED <<doc, heading_tags, i, level_counters, hierarchical_stack, headings, pc, call, inl>>

\* save_headings_json(...): writes the file and returns True, or prints and
\* returns False; the caller does not look at the value
SaveJson ==
    /\ cli.pc = "save_json"
    /\ \E written \in BOOLEAN :
          cli' = IF written
                 THEN [cli EXCEPT !.pc = "save_mode", !.files = Append(@, "json")]
                 ELSE [cli EXCEPT !.pc = "save_mode", !.stdout = Append(@, <<"Error saving JSON file">>)]
    /\ UNCHANGED <<doc, heading_tags, i, level_counters, hierarchical_stack, headings, pc, call, inl>>

\* the file of the chosen mode
mode_file_ignoring_markdown == IF cli.use_full_webpage THEN "modified.html" ELSE "headings.html"

mode_file == IF cli.use_full_webpage THEN "modified.html" ELSE IF cli.use_markdown THEN "headings.md" ELSE "headings.html"

\* if use_full_webpage: save_headings_full_html(...) elif use_markdown:
\* save_headings_markdown(...) else: save_headings_html(...), value ignored
SaveMode ==
    /\ cli.pc = "save_mode"
    /\ \E written \in BOOLEAN :
          cli' = IF written
                 THEN [cli EXCEPT !.pc = "report", !.files = Append(@, mode_file)]
                 ELSE [cli EXCEPT !.pc = "report", !.stdout = Append(@, <<"Error saving ", mode_file>>)]
    /\ UNCHANGED <<doc, heading_tags, i, level_counters, hierarchical_stack, headings, pc, call, inl>>

\* the last prints of the try block; the script ends, the status is 0
Report ==
    /\ cli.pc = "report"
    /\ cli' = [cli EXCEPT !.pc = "exited", !.exit_status = "0", !.stdout = Append(@, <<"Processing complete!">>)]
    /\ UNCHANGED <<doc, heading_tags, i, level_counters, hierarchical_stack, headings, pc, call, inl>>

\* except Exception as e: print(f"Error: {e}"); the script ends, the status is 0
ExceptClause ==
    /\ cli.pc = "except"
    /\ cli' = [cli EXCEPT !.pc = "exited", !.exit_status = "0", !.stdout = Append(@, <<"Error: ">> \o cli.e)]
    /\ UNCHANGED <<doc, heading_tags, i, level_counters, hierarchical_stack, headings, pc, call, inl>>

NextCli == ValidateOptions \/ FetchWebpage \/ ExtractAndPrint \/ SaveJson \/ SaveMode \/ Report \/ ExceptClause

SpecCli == InitCli /\ [][NextCli]_vars

fetch_failed == cli.fetched \in FetchOutcomes \ {"ok"}

error_reported == \E k \in 1..Len(cli.stdout) : cli.stdout[k][1] = "Error: "

\* C20: a run in which fetching or parsing the primary page failed prints an
\* error message and ends with a non-zero exit status, and a run ends with
\* status zero only if the page was fetched and parsed.
C20_FetchFailureExitsNonZero ==
    cli.pc = "exited" =>
        /\ fetch_failed => error_reported /\ cli.exit_status # "0"
        /\ cli.exit_status = "0" => cli.fetched = "ok"

(***************************************************************************)
(* The resource inliner (save_headings_full_html).  A URL or URI is a      *)
(* sequence of strings, <<"a", ".css">> or <<"data:", "image/png",         *)
(* ";base64,", ...>>; CSS text is a sequence of items: @import directives, *)
(* background-image declarations with the URL bare or quoted, provenance   *)
(* comments and other rules.  The document is its link elements, its img   *)
(* elements, its style elements and whether it has a head; a link that was *)
(* removed keeps its place in inl.links with present = FALSE, so that an   *)
(* element is named by its index throughout the run.                       *)
(***************************************************************************)
\* an attribute the element does not have
NoAttr == <<>>

css_a == <<"a", ".css">>
css_b == <<"b", ".css">>
png_p == <<"p", ".png">>
png_q == <<"q", ".png">>

ImportItem(url) == [t |-> "import", url |-> url, quote |-> ""]
BgItem(url, quote) == [t |-> "bg", url |-> url, quote |-> quote]
Comment(url) == [t |-> "comment", url |-> url, quote |-> ""]
Rule(name) == [t |-> "rule", url |-> <<name>>, quote |-> ""]

\* what the servers answer: the text of a stylesheet (a.css imports b.css and
\* b.css imports a.css), the bytes of an image and its content-type header
response_text(url) ==
    IF url = css_a THEN <<ImportItem(css_b), Rule("a"), BgItem(png_p, "")>>
    ELSE IF url = css_b THEN <<ImportItem(css_a), Rule("b"), BgItem(png_q, "\"")>>
    ELSE <<Rule("other")>>

response_content(url) == IF url \in {png_p, png_q} THEN url[1] ELSE "other"

response_headers(url) == IF url = png_p THEN <<"image/jpeg">> ELSE NoAttr

\* headers.get('content-type', 'image/png')
content_type_octet_stream(headers) == IF headers # NoAttr THEN headers[1] ELSE "application/octet-stream"

content_type(headers) == IF headers # NoAttr THEN headers[1] ELSE "image/png"

\* base64.b64encode(content).decode('utf-8')
b64encode(content) == <<"b64", content>>

\* f"data:{content_type};base64,{img_data}"
data_uri(type, data) == <<"data:", type, ";base64,">> \o data

\* startswith('data:')
is_data(url) == url # <<>> /\ url[1] = "data:"

embedded_image(url) == data_uri(content_type(response_headers(url)), b64encode(response_content(url)))

\* re.finditer(import_pattern, css_content): the directives, in order
import_matches(css) == LET is_import(item) == item.t = "import" IN SelectSeq(css, is_import)

\* css_content.replace(import_match.group(0), ...): every occurrence of the directive
RECURSIVE replace_directive(_, _, _)
replace_directive(css, directive, replacement) ==
    IF css = <<>> THEN <<>>
    ELSE (IF Head(css) = directive THEN replacement ELSE <<Head(css)>>) \o replace_directive(Tail(css), directive, replacement)

\* the loop "for import_match in imports": the matches are those of the text
\* as fetched, the replacements are made in the text as it is by then
RECURSIVE resolve_imports(_, _, _, _)
resolve_imports(imports, import_ok, css_content, m) ==
    IF m > Len(imports) THEN css_content
    ELSE LET import_url == imports[m].url
             replaced == IF import_ok[m]
                         THEN replace_directive(css_content, imports[m], <<Comment(import_url)>> \o response_text(import_url))
                         ELSE css_content
         IN resolve_imports(imports, import_ok, replaced, m + 1)

\* re.finditer(bg_pattern, css_content): the declarations, in order
bg_matches(css) == LET is_bg(item) == item.t = "bg" IN SelectSeq(css, is_bg)

\* match.group(1) of url\(["\']?([^)]+)["\']?\): the greedy group takes a
\* closing quote with it
bg_url_of(item) == IF item.quote = "" THEN item.url ELSE Append(item.url, item.quote)

\* the three css_content.replace(...): url(X), url("X") and url('X') with
\* X = bg_url become the same with the data URI
replace_bg(css, bg_url, uri) ==
    [k \in 1..Len(css) |-> IF css[k].t = "bg" /\ css[k].url = bg_url THEN [css[k] EXCEPT !.url = uri] ELSE css[k]]

\* the loop "for match in matches" of one style element
RECURSIVE resolve_backgrounds(_, _, _, _)
resolve_backgrounds(matches, bg_ok, css_content, m) ==
    IF m > Len(matches) THEN css_content
    ELSE LET bg_url == bg_url_of(matches[m])
             replaced == IF ~is_data(bg_url) /\ bg_ok[m] THEN replace_bg(css_content, bg_url, embedded_image(bg_url)) ELSE css_content
         IN resolve_backgrounds(matches, bg_ok, replaced, m + 1)

Link(rel, href, media) == [rel |-> rel, href |-> href, media |-> media, present |-> TRUE]
Img(src) == [src |-> src]
\* origin is the index of the link the element was made for, 0 for an
\* element of the page itself; it is not in the document and only serves to
\* state the properties
StyleTag(origin, media, css) == [origin |-> origin, media |-> media, css |-> css]

\* one call of requests.get: for which reference, of which URL, and whether
\* it and raise_for_status went through
Ref(kind, at) == [kind |-> kind, at |-> at]
Fetch(ref, url, ok) == [ref |-> ref, url |-> url, ok |-> ok]

\* '.css' in href.lower() or 'stylesheet' in str(link).lower()
is_css_like(link) == ".css" \in Range(link.href) \/ link.rel = "stylesheet" \/ "stylesheet" \in Range(link.href)

\* the handlers "except Exception as e: print(...)" of a link or an image
\* without the try around the fetch: the failure reaches the outer handler
failure_propagates(s) == [s EXCEPT !.pc = "returned", !.result = "False"]

\* except Exception as e: print(f"  Failed to embed ..."): the element stays as it is
keep_original(s) == s

\* head.append(style_tag) without css_link.decompose()
append_style_keep_link(s, k, style_tag) == [s EXCEPT !.styles = Append(@, style_tag)]

\* head.append(style_tag); css_link.decompose(), or css_link.replace_with(style_tag)
\* where there is no head: the place of the new element is not modelled
replace_link_by_style(s, k, style_tag) == [s EXCEPT !.styles = Append(@, style_tag), !.links[k].present = FALSE]

\* the body of "for css_link in css_links"
embed_stylesheet(s, k, ok, import_ok) ==
    LET css_link == s.links[k]
        href == css_link.href
        css_text == response_text(href)
        imports == import_matches(css_text)
        css_content == resolve_imports(imports, import_ok, css_text, 1)
        style_tag == StyleTag(k, css_link.media, css_content)
        fetched == [s EXCEPT !.fetches = @ \o <<Fetch(Ref("link", <<k>>), href, ok)>>
                                           \o (IF ok THEN [m \in 1..Len(imports) |-> Fetch(Ref("import", <<k, m>>), imports[m].url, import_ok[m])] ELSE <<>>)]
    IN IF href = NoAttr THEN s
       ELSE IF ok THEN replace_link_by_style(fetched, k, style_tag)
       ELSE keep_original(fetched)

\* the body of "for link in other_css_links"
embed_other_link(s, k, ok) ==
    LET link == s.links[k]
        href == link.href
        style_tag == StyleTag(k, NoAttr, <<Comment(href)>> \o response_text(href))
        fetched == [s EXCEPT !.fetches = Append(@, Fetch(Ref("link", <<k>>), href, ok))]
    IN IF ~is_css_like(link) THEN s
       ELSE IF ok THEN replace_link_by_style(fetched, k, style_tag)
       ELSE keep_original(fetched)

\* the body of "for img in images"
embed_image(s, k, ok) ==
    LET src == s.imgs[k].src
        fetched == [s EXCEPT !.fetches = Append(@, Fetch(Ref("img", <<k>>), src, ok))]
    IN IF src = NoAttr \/ is_data(src) THEN s
       ELSE IF ok THEN [fetched EXCEPT !.imgs[k].src = embedded_image(src)]
       ELSE keep_original(fetched)

\* the body of "for style_tag in style_tags"
embed_backgrounds(s, k, bg_ok) ==
    LET css == s.styles[k].css
        matches == bg_matches(css)
        external == {m \in 1..Len(matches) : ~is_data(bg_url_of(matches[m]))}
        is_external(f) == f.ref.at[2] \in external
        log == SelectSeq([m \in 1..Len(matches) |-> Fetch(Ref("bg", <<k, m>>), bg_url_of(matches[m]), bg_ok[m])], is_external)
    IN IF css = <<>> THEN s
       ELSE [s EXCEPT !.fetches = @ \o log, !.styles[k].css = resolve_backgrounds(matches, bg_ok, css, 1)]

\* head = soup.find('head'); if head: head.append(theme_fix_css)
add_theme_style(s) == IF s.has_head THEN [s EXCEPT !.theme = TRUE] ELSE s

\* heading_map[title] = reference_key for every record, a later record of
\* the same title replacing an earlier one
RECURSIVE heading_map(_)
heading_map(records) ==
    IF records = <<>> THEN [t \in {} |-> <<>>]
    ELSE LET heading_data == records[Len(records)]
             title == strip(heading_data.title)
             earlier == heading_map(SubSeq(records, 1, Len(records) - 1))
         IN IF title # <<>> /\ heading_data.reference_key # <<>>
            THEN [t \in DOMAIN earlier \cup {title} |-> IF t = title THEN heading_data.reference_key ELSE earlier[t]]
            ELSE earlier

\* the loop "for heading_element in heading_tags": the key on the button put
\* behind each heading element, NoAttr where none is put, and headings_enhanced,
\* the number of buttons put
add_copy_buttons_uncleaned(s) ==
    LET map == heading_map(s.records)
        heading_text(j) == s.heading_elements[j]
        enhanced == {j \in 1..Len(s.heading_elements) : heading_text(j) \in DOMAIN map}
    IN [s EXCEPT !.buttons = [j \in 1..Len(s.heading_elements) |->
                                 IF j \in enhanced THEN map[heading_text(j)] ELSE NoAttr],
                 !.headings_enhanced = Cardinality(enhanced),
                 !.buttons_added = TRUE]

add_copy_buttons(s) ==
    LET map == heading_map(s.records)
        heading_text(j) == clean_heading_text(s.heading_elements[j])
        enhanced == {j \in 1..Len(s.heading_elements) : heading_text(j) \in DOMAIN map}
    IN [s EXCEPT !.buttons = [j \in 1..Len(s.heading_elements) |->
                                 IF j \in enhanced THEN map[heading_text(j)] ELSE NoAttr],
                 !.headings_enhanced = Cardinality(enhanced),
                 !.buttons_added = TRUE]

\* if head: head.append(css_style); head.append(js_script)
add_button_assets(s) == IF s.has_head THEN [s EXCEPT !.assets = TRUE] ELSE s

\* with open(output_path, 'w') as f: f.write(str(soup)); return True, or,
\* where the file cannot be written, the outer handler: return False
write_file(s, writable) ==
    IF writable THEN [s EXCEPT !.pc = "returned", !.writable = "yes", !.written = TRUE, !.result = "True"]
    ELSE [s EXCEPT !.pc = "returned", !.writable = "no", !.result = "False"]

\* the loops of the run, in order, and what follows the last
LoopPhases == <<"css_links", "other_links", "images", "backgrounds", "theme">>

loop_length(s) == IF s.pc = "images" THEN Len(s.imgs) ELSE IF s.pc = "backgrounds" THEN Len(s.styles) ELSE Len(s.links)

\* soup.find_all('link', {'rel': 'stylesheet'}), soup.find_all('link', href=True),
\* soup.find_all('img'), soup.find_all('style'): is the k-th element in the list
in_loop(s, k) ==
    IF s.pc = "css_links" THEN s.links[k].rel = "stylesheet"
    ELSE IF s.pc = "other_links" THEN s.links[k].present /\ s.links[k].href # NoAttr
    ELSE TRUE

\* go on to the next element of the list, or to the next loop when the list is through
RECURSIVE advance(_)
advance(s) ==
    IF s.pc \notin Range(LoopPhases) \ {"theme"} THEN s
    ELSE IF s.k > loop_length(s)
         THEN advance([s EXCEPT !.pc = LoopPhases[1 + CHOOSE n \in 1..4 : LoopPhases[n] = s.pc], !.k = 1])
         ELSE IF ~in_loop(s, s.k) THEN advance([s EXCEPT !.k = @ + 1]) ELSE s

\* the pages: their link elements, ...
LinkLists ==
    { <<>>,
      <<Link("stylesheet", css_a, NoAttr)>>,
      <<Link("stylesheet", css_b, <<"print">>)>>,
      <<Link("preload", css_a, NoAttr)>>,
      <<Link("icon", png_p, NoAttr)>>,
      <<Link("stylesheet", NoAttr, NoAttr)>>,
      <<Link("stylesheet", css_a, NoAttr), Link("stylesheet", css_a, NoAttr)>>,
      <<Link("stylesheet", css_b, NoAttr), Link("preload", css_a, NoAttr)>> }

\* ... their img elements, ...
ImgKinds == {Img(png_p), Img(png_q), Img(data_uri("image/gif", <<"R0lG">>)), Img(NoAttr)}

ImgLists == SeqUpTo(ImgKinds, MaxImages)

\* ... their style elements, ...
StyleLists ==
    { <<>>,
      <<StyleTag(0, NoAttr, <<BgItem(png_p, ""), BgItem(png_p, "'")>>)>>,
      <<StyleTag(0, NoAttr, <<BgItem(data_uri("image/gif", <<"R0lG">>), "\""), Rule("x")>>)>>,
      <<StyleTag(0, NoAttr, <<>>)>> }

\* ... and their headings <h1>a</h1><h2> b\n</h2><h1>a</h1><h2> </h2> with the
\* records the extraction pass gives for them
PageHeadings == << <<"a">>, <<" ", "b", "\n">>, <<"a">>, <<" ">> >>

PageRecords ==
    << [title |-> <<"a">>, reference_key |-> format_reference_key(1, 1, <<"a">>)],
       [title |-> <<"b">>, reference_key |-> format_reference_key(2, 1, <<"b">>)],
       [title |-> <<"a">>, reference_key |-> format_reference_key(1, 2, <<"a">>)] >>

\* the records of an earlier state of the page, <h2>b</h2> alone
EarlierRecords == << [title |-> <<"b">>, reference_key |-> format_reference_key(2, 1, <<"b">>)] >>

\* with raw_html the page is the text the records were extracted from; without
\* it the page is fetched again, here after it has changed
RecordLists(raw_html) == IF raw_html THEN {PageRecords} ELSE {EarlierRecords}

InitInline ==
    /\ ExtractionIdle /\ call = Idle /\ cli = Idle
    /\ \E raw_html \in BOOLEAN, has_head \in BOOLEAN, links \in LinkLists, imgs \in ImgLists, styles \in StyleLists :
       \E records \in RecordLists(raw_html) :
          inl = [pc |-> "start", k |-> 1, raw_html |-> raw_html, writable |-> "not tried", has_head |-> has_head,
                 page |-> [links |-> links, imgs |-> imgs, styles |-> styles],
                 links |-> links, imgs |-> imgs, styles |-> styles,
                 heading_elements |-> PageHeadings, records |-> records,
                 fetches |-> <<>>, theme |-> FALSE, buttons |-> <<>>, buttons_added |-> FALSE, headings_enhanced |-> 0,
                 assets |-> FALSE,
                 written |-> FALSE, result |-> "none"]

\* if raw_html: parse it, else: fetch_webpage(source_url), which may raise
ParseOrFetch ==
    /\ inl.pc = "start"
    /\ \E ok \in BOOLEAN :
          inl' = IF inl.raw_html \/ ok THEN advance([inl EXCEPT !.pc = "css_links"])
                 ELSE [inl EXCEPT !.pc = "returned", !.result = "False"]
    /\ UNCHANGED <<doc, heading_tags, i, level_counters, hierarchical_stack, headings, pc, call, cli>>

EmbedStylesheet ==
    /\ inl.pc = "css_links"
    /\ \E ok \in BOOLEAN, import_ok \in [1..Len(import_matches(response_text(inl.links[inl.k].href))) -> BOOLEAN] :
          inl' = advance([embed_stylesheet(inl, inl.k, ok, import_ok) EXCEPT !.k = @ + 1])
    /\ UNCHANGED <<doc, heading_tags, i, level_counters, hierarchical_stack, headings, pc, call, cli>>

EmbedOtherLink ==
    /\ inl.pc = "other_links"
    /\ \E ok \in BOOLEAN : inl' = advance([embed_other_link(inl, inl.k, ok) EXCEPT !.k = @ + 1])
    /\ UNCHANGED <<doc, heading_tags, i, level_counters, hierarchical_stack, headings, pc, call, cli>>

EmbedImage ==
    /\ inl.pc = "images"
    /\ \E ok \in BOOLEAN : inl' = advance([embed_image(inl, inl.k, ok) EXCEPT !.k = @ + 1])
    /\ UNCHANGED <<doc, heading_tags, i, level_counters, hierarchical_stack, headings, pc, call, cli>>

EmbedBackgrounds ==
    /\ inl.pc = "backgrounds"
    /\ \E bg_ok \in [1..Len(bg_matches(inl.styles[inl.k].css)) -> BOOLEAN] :
          inl' = advance([embed_backgrounds(inl, inl.k, bg_ok) EXCEPT !.k = @ + 1])
    /\ UNCHANGED <<doc, heading_tags, i, level_counters, hierarchical_stack, headings, pc, call, cli>>

AddThemeStyle ==
    /\ inl.pc = "theme"
    /\ inl' = [add_theme_style(inl) EXCEPT !.pc = "buttons"]
    /\ UNCHANGED <<doc, heading_tags, i, level_counters, hierarchical_stack, headings, pc, call, cli>>

AddCopyButtons ==
    /\ inl.pc = "buttons"
    /\ inl' = [add_copy_buttons(inl) EXCEPT !.pc = "assets"]
    /\ UNCHANGED <<doc, heading_tags, i, level_counters, hierarchical_stack, headings, pc, call, cli>>

AddButtonAssets ==
    /\ inl.pc = "assets"
    /\ inl' = [add_button_assets(inl) EXCEPT !.pc = "write"]
    /\ UNCHANGED <<doc, heading_tags, i, level_counters, hierarchical_stack, headings, pc, call, cli>>

WriteFile ==
    /\ inl.pc = "write"
    /\ \E writable \in BOOLEAN : inl' = write_file(inl, writable)
    /\ UNCHANGED <<doc, heading_tags, i, level_counters, hierarchical_stack, headings, pc, call, cli>>

NextInline ==
    \/ ParseOrFetch \/ EmbedStylesheet \/ EmbedOtherLink \/ EmbedImage \/ EmbedBackgrounds
    \/ AddThemeStyle \/ AddCopyButtons \/ AddButtonAssets \/ WriteFile

SpecInline == InitInline /\ [][NextInline]_vars

(***************************************************************************)
(* Vocabulary of the properties of the inliner: the fetches made for a     *)
(* reference, and the style elements made for a link.                      *)
(***************************************************************************)
attempts(ref) == LET for_ref(f) == f.ref = ref IN SelectSeq(inl.fetches, for_ref)

attempted(ref) == attempts(ref) # <<>>

all_failed(ref) == attempted(ref) /\ \A j \in 1..Len(attempts(ref)) : ~attempts(ref)[j].ok

succeeded(ref) == attempted(ref) /\ attempts(ref)[Len(attempts(ref))].ok

blocks_of(k) == {n \in 1..Len(inl.styles) : inl.styles[n].origin = k}

returned_true == inl.pc = "returned" /\ inl.result = "True"

\* every URL was answered the same way each time it was fetched
consistent == \A j, n \in 1..Len(inl.fetches) : inl.fetches[j].url = inl.fetches[n].url => inl.fetches[j].ok = inl.fetches[n].ok

is_stylesheet_link(link) == link.rel = "stylesheet" /\ link.href # NoAttr

is_external(src) == src # NoAttr /\ ~is_data(src)

\* C11: whatever fetches fail, a reference whose fetch failed is left as it
\* was and every other reference is attempted and, when its own fetch
\* succeeds, embedded: links suggesting CSS, the @import directives of an
\* embedded stylesheet link, image sources and background-image URLs.
C11_FailureIsolation ==
    returned_true /\ consistent =>
        /\ \A k \in 1..Len(inl.links) :
              is_css_like(inl.page.links[k]) /\ inl.page.links[k].href # NoAttr =>
                 /\ attempted(Ref("link", <<k>>))
                 /\ all_failed(Ref("link", <<k>>)) => inl.links[k] = inl.page.links[k] /\ blocks_of(k) = {}
                 /\ succeeded(Ref("link", <<k>>)) => ~inl.links[k].present /\ blocks_of(k) # {}
        /\ \A k \in 1..Len(inl.links) :
              is_stylesheet_link(inl.page.links[k]) /\ ~inl.links[k].present =>
                 \A m \in 1..Len(import_matches(response_text(inl.page.links[k].href))) :
                    LET directive == import_matches(response_text(inl.page.links[k].href))[m]
                        css == inl.styles[CHOOSE n \in blocks_of(k) : TRUE].css
                    IN /\ attempted(Ref("import", <<k, m>>))
                       /\ all_failed(Ref("import", <<k, m>>)) => directive \in Range(css) /\ Comment(directive.url) \notin Range(css)
                       /\ succeeded(Ref("import", <<k, m>>)) => Comment(directive.url) \in Range(css)
        /\ \A k \in 1..Len(inl.imgs) :
              is_external(inl.page.imgs[k].src) =>
                 /\ attempted(Ref("img", <<k>>))
                 /\ all_failed(Ref("img", <<k>>)) => inl.imgs[k] = inl.page.imgs[k]
                 /\ succeeded(Ref("img", <<k>>)) => is_data(inl.imgs[k].src)
        /\ \A n \in 1..Len(inl.styles) :
              \A m \in 1..Len(bg_matches(inl.styles[n].css)) :
                 LET url == bg_matches(inl.styles[n].css)[m].url
                 IN /\ attempted(Ref("bg", <<n, m>>)) \/ is_data(url)
                    /\ all_failed(Ref("bg", <<n, m>>)) => ~is_data(url)
                    /\ succeeded(Ref("bg", <<n, m>>)) => is_data(url)

\* the rules a stylesheet has of its own
own_rules(url) == {item \in Range(response_text(url)) : item.t = "rule"}

\* C12: every stylesheet link has exactly one outcome: it is removed and
\* exactly one style element with its fetched CSS was added, or it is still
\* there as it was and no style element was added for it; every image source
\* is the original one or a data: URI.
C12_OneOutcomePerReference ==
    inl.pc # "idle" =>
        /\ \A k \in 1..Len(inl.links) :
              inl.page.links[k].rel = "stylesheet" =>
                 \/ /\ ~inl.links[k].present
                    /\ Cardinality(blocks_of(k)) = 1
                    /\ \A n \in blocks_of(k) : own_rules(inl.page.links[k].href) \subseteq Range(inl.styles[n].css)
                 \/ /\ inl.links[k] = inl.page.links[k]
                    /\ blocks_of(k) = {}
        /\ \A k \in 1..Len(inl.imgs) : inl.imgs[k].src = inl.page.imgs[k].src \/ is_data(inl.imgs[k].src)

\* two links to the same stylesheet, one embedded, one left, and an image embedded
C12_Witness ==
    /\ returned_true
    /\ Len(inl.links) = 2 /\ inl.page.links[1] = inl.page.links[2] /\ inl.page.links[1].rel = "stylesheet"
    /\ ~inl.links[1].present /\ inl.links[2].present
    /\ Cardinality(blocks_of(1)) = 1 /\ blocks_of(2) = {} /\ all_failed(Ref("link", <<2>>))
    /\ Len(inl.imgs) = 1 /\ is_external(inl.page.imgs[1].src) /\ is_data(inl.imgs[1].src)

\* C13: every occurrence of an external reference (stylesheet link, @import
\* directive, image source, background-image URL) causes exactly one fetch,
\* whether it succeeds or fails; none is fetched twice.
C13_OneFetchPerReference ==
    returned_true /\ consistent =>
        /\ \A j \in 1..Len(inl.fetches) : Len(attempts(inl.fetches[j].ref)) = 1
        /\ \A k \in 1..Len(inl.links) : is_stylesheet_link(inl.page.links[k]) => attempted(Ref("link", <<k>>))
        /\ \A k \in 1..Len(inl.imgs) : is_external(inl.page.imgs[k].src) => attempted(Ref("img", <<k>>))

\* a page with one stylesheet link and one image whose source is external
one_link_one_image ==
    /\ Len(inl.page.links) = 1 /\ is_stylesheet_link(inl.page.links[1])
    /\ Len(inl.page.imgs) = 1 /\ is_external(inl.page.imgs[1].src)

\* C14: for a page with one stylesheet link whose fetch always fails and one
\* image whose fetch succeeds, the run completes and writes the output (the
\* page being given and the file not refused), the link is still there with
\* its href and no style element was made from it, and the image source is
\* data:<type>;base64,<payload>, the type being image/png when the response
\* declares none.
C14_LinkKeptImageEmbedded ==
    /\ inl.pc = "returned" /\ inl.raw_html /\ inl.writable # "no"
    /\ one_link_one_image
    /\ all_failed(Ref("link", <<1>>)) /\ succeeded(Ref("img", <<1>>))
    => /\ inl.result = "True" /\ inl.written
       /\ inl.links[1].present /\ inl.links[1].href = inl.page.links[1].href
       /\ blocks_of(1) = {}
       /\ LET src == inl.imgs[1].src
              declared == response_headers(inl.page.imgs[1].src)
          IN /\ Len(src) > 3 /\ src[1] = "data:" /\ src[3] = ";base64,"
             /\ src[2] = (IF declared = NoAttr THEN "image/png" ELSE declared[1])
             /\ SubSeq(src, 4, Len(src)) = b64encode(response_content(inl.page.imgs[1].src))

\* the link was fetched and failed, the image's response declared no type
C14_Witness ==
    /\ inl.pc = "returned" /\ inl.raw_html /\ inl.result = "True" /\ one_link_one_image
    /\ all_failed(Ref("link", <<1>>)) /\ succeeded(Ref("img", <<1>>))
    /\ inl.links = inl.page.links
    /\ inl.page.imgs[1].src = png_q /\ inl.imgs[1].src = <<"data:", "image/png", ";base64,", "b64", "q">>

\* the headings of the page that have a record of their title
matched_headings == {j \in 1..Len(inl.heading_elements) : \E r \in 1..Len(inl.records) : inl.records[r].title = clean_heading_text(inl.heading_elements[j])}

\* C15: when the raw HTML is supplied and the file is not refused, the run
\* goes through all its steps and returns True whatever the fetches of the
\* secondary resources did: the theme style and the shared style and script
\* are in the head (where there is one), the copy buttons are behind the
\* matched headings, and the file is written.
C15_ReturnsTrueWhateverFails ==
    inl.pc = "returned" /\ inl.raw_html /\ inl.writable # "no" =>
        /\ inl.result = "True" /\ inl.written
        /\ inl.buttons_added /\ \A j \in matched_headings : inl.buttons[j] # NoAttr
        /\ inl.has_head => inl.theme /\ inl.assets

\* a run in which the stylesheet, its import, the image and a background image failed
C15_Witness ==
    /\ returned_true /\ inl.raw_html /\ inl.has_head /\ inl.theme /\ inl.assets /\ inl.written
    /\ \E j \in 1..Len(inl.fetches) : inl.fetches[j].ref.kind = "link" /\ ~inl.fetches[j].ok
    /\ \E j \in 1..Len(inl.fetches) : inl.fetches[j].ref.kind = "img" /\ ~inl.fetches[j].ok
    /\ \E j \in 1..Len(inl.fetches) : inl.fetches[j].ref.kind = "bg" /\ ~inl.fetches[j].ok

C23_EarlierRecordsUnchanged ==
    [][ /\ Len(headings') >= Len(headings)
        /\ \A k \in 1..Len(headings) : headings'[k] = headings[k]
      ]_vars

\* a finished run whose second record was produced from a changed stack after the first
C23_Witness ==
    /\ pc = "done"
    /\ Len(headings) >= 2
    /\ headings[2].hierarchical_path # headings[1].hierarchical_path
    /\ hierarchical_stack # headings[1].hierarchical_path

(***************************************************************************)
(* C27.  The sibling scan for a record's preview stops at the next heading *)
(* element whether or not that heading has an empty cleaned title: when    *)
(* the heading element after a record's own is empty-titled, no sibling    *)
(* the scan visits is, contains or follows it; and the nodes after an      *)
(* empty-titled heading, up to the next heading element, contribute text   *)
(* to no record's preview.  (Fails when the empty-titled heading is nested *)
(* in a sibling container: the scan never meets it.)                       *)
(***************************************************************************)
\* the siblings the scan for the j-th heading element visits
scanned(j) ==
    LET visited == scanned_siblings(doc, next_sibling(doc, heading_tags[j]), stop_element_of(doc, SubSeq(heading_tags, j + 1, Len(heading_tags))))
    IN {visited[k] : k \in 1..Len(visited)}

\* position q lies after the j-th heading element and before the next heading element, if any
in_section_of(q, j) ==
    /\ before(heading_tags[j], q)
    /\ j < Len(heading_tags) => before(q, heading_tags[j + 1])

C27_EmptyTitledHeadingEndsPreview ==
    LET source == source_index
    IN \A k \in 1..Len(headings) :
        k <= Len(source) =>
            /\ (source[k] < Len(heading_tags) /\ ~kept_at(source[k] + 1)) =>
                    \A s \in scanned(source[k]) :
                        \A q \in covered(doc, s) : before(q, heading_tags[source[k] + 1])
            /\ \A j \in 1..Len(heading_tags) :
                    ~kept_at(j) =>
                        \A s \in contributing(source[k]) :
                            \A q \in covered(doc, s) : ~in_section_of(q, j)

(***************************************************************************)
(* C21.  As stated: in every command-line run whose fetch of the page and  *)
(* extraction succeeded, whichever mode was chosen, the files written are  *)
(* the JSON file exactly once and then exactly one file of the mode, and   *)
(* at no point has a file of a mode been written without the JSON file     *)
(* before it (C21_JsonOnceThenOneModeArtifact; fails when a write is       *)
(* refused, since the value the savers return is not looked at).           *)
(* Amended (C21_JsonThenModeUnlessRefused): the same for the runs in which *)
(* no write was refused; and at every point of every run the JSON file is  *)
(* written at most once and before any file of a mode, at most one file of *)
(* a mode is written, it is that of the chosen mode, and it is there       *)
(* without the JSON file only after the JSON write was refused.            *)
(***************************************************************************)
ModeFiles == {"modified.html", "headings.md", "headings.html"}

\* the file the chosen mode stands for
chosen_mode_file ==
    IF cli.use_full_webpage THEN "modified.html" ELSE IF cli.use_markdown THEN "headings.md" ELSE "headings.html"

json_write_refused == \E k \in 1..Len(cli.stdout) : cli.stdout[k] = <<"Error saving JSON file">>

write_refused == \E k \in 1..Len(cli.stdout) : cli.stdout[k][1] \in {"Error saving JSON file", "Error saving "}

import_fetches(k) ==
    LET of_link(f) == f.ref.kind = "import" /\ f.ref.at[1] = k IN SelectSeq(inl.fetches, of_link)

C24_BoundedFetchesPerStylesheet ==
    inl.pc # "idle" =>
        \A k \in 1..Len(inl.page.links) :
            is_stylesheet_link(inl.page.links[k]) =>
                LET own == import_matches(response_text(inl.page.links[k].href))
                IN /\ Len(attempts(Ref("link", <<k>>))) <= 1
                   /\ Len(import_fetches(k)) <= Len(own)
                   /\ \A j \in 1..Len(import_fetches(k)) :
                         LET f == import_fetches(k)[j]
                         IN /\ f.ref.at[2] \in 1..Len(own)
                            /\ f.url = own[f.ref.at[2]].url
                            /\ Len(attempts(f.ref)) = 1

(***************************************************************************)
(* C28.  Once the style elements have been gone through, for every         *)
(* background-image reference url(X) of a style element, bare or quoted,   *)
(* with X not a data: URI: a fetch was made for it, every fetch made for   *)
(* it asked for exactly X, and if the reference is still external then     *)
(* none of them succeeded.  (Fails for the quoted forms: the URL fetched    *)
(* ends with the closing quote and the reference is never replaced.)       *)
(***************************************************************************)
backgrounds_done == inl.pc \in {"theme", "buttons", "assets", "write"} \/ returned_true

\* the URL the m-th background-image reference of the n-th style element had in the page
\* or in the stylesheet the element was made from
original_bg_url(n, m) ==
    IF n <= Len(inl.page.styles) THEN bg_matches(inl.page.styles[n].css)[m].url
    ELSE bg_matches(inl.styles[n].css)[m].url

C28_BackgroundFetchedAtItsUrlAndReplaced ==
    backgrounds_done =>
        \A n \in 1..Len(inl.styles) :
            \A m \in 1..Len(bg_matches(inl.styles[n].css)) :
                LET X == original_bg_url(n, m)
                    now == bg_matches(inl.styles[n].css)[m].url
                    ref == Ref("bg", <<n, m>>)
                IN ~is_data(X) =>
                      /\ attempted(ref)
                      /\ \A j \in 1..Len(attempts(ref)) : attempts(ref)[j].url = X
                      /\ succeeded(ref) => is_data(now)

(***************************************************************************)
(* C25.  Once the copy buttons have been added, a heading element has a    *)
(* button after it if and only if its cleaned text equals the title of one *)
(* of the records supplied; the count reported is the number of heading    *)
(* elements with such a title, and a heading element without a matching    *)
(* record, one with an empty cleaned text included, has none.              *)
(***************************************************************************)
\* the cleaned text of the j-th heading element is the title of a supplied record
has_matching_record(j) ==
    \E n \in 1..Len(inl.records) : inl.records[n].title = clean_heading_text(inl.heading_elements[j])

C25_ButtonIffTitleMatches ==
    (inl.pc # "idle" /\ inl.buttons_added) =>
        /\ Len(inl.buttons) = Len(inl.heading_elements)
        /\ \A j \in 1..Len(inl.heading_elements) : (inl.buttons[j] # NoAttr) <=> has_matching_record(j)
        /\ inl.headings_enhanced = Cardinality({j \in 1..Len(inl.heading_elements) : has_matching_record(j)})

\* a page fetched again with the records of its earlier state: one heading
\* with surrounding whitespace matched, two titled headings and a blank one not
C25_Witness ==
    /\ inl.pc = "returned"
    /\ inl.buttons_added
    /\ inl.headings_enhanced = 1
    /\ inl.buttons[2] # NoAttr
    /\ inl.buttons[1] = NoAttr /\ inl.buttons[4] = NoAttr
    /\ clean_heading_text(inl.heading_elements[1]) # <<>>
    /\ inl.heading_elements[2] # clean_heading_text(inl.heading_elements[2])

(***************************************************************************)
(* C26.  When the records are those extracted from the page being inlined, *)
(* the button after a heading element carries the reference key of the     *)
(* record produced for that very element, also when several headings have  *)
(* the same title.  (Fails for every heading but the last of those that    *)
(* share a title: the lookup by title keeps the key of the last one.)      *)
(***************************************************************************)
\* the number of heading elements up to the j-th with a non-empty cleaned text:
\* the place, in the record list, of the record of the j-th
RECURSIVE record_index(_)
record_index(j) ==
    IF j = 0 THEN 0
    ELSE record_index(j - 1) + (IF clean_heading_text(inl.heading_elements[j]) # <<>> THEN 1 ELSE 0)

C26_ButtonCarriesKeyOfItsOwnRecord ==
    (inl.pc # "idle" /\ inl.buttons_added /\ inl.records = PageRecords) =>
        \A j \in 1..Len(inl.heading_elements) :
            clean_heading_text(inl.heading_elements[j]) # <<>> =>
                inl.buttons[j] = inl.records[record_index(j)].reference_key

====
